---------------------------- MODULE Spec2Model ----------------------------
(***************************************************************************)
(* A model of the EACC marketplace MCP server (src/src/index.ts): the tool *)
(* dispatcher, the lazy initialisation of the shared EACCClient, and the   *)
(* four query operations get_job_count, search_jobs, get_job_details and   *)
(* get_recent_jobs, run against a job ledger served by the client.         *)
(*                                                                         *)
(* JavaScript strings are sequences of one-character strings, so that      *)
(* toLowerCase and includes are computed and not assumed.  A JavaScript    *)
(* object is a record whose DOMAIN holds the properties that are present;  *)
(* an absent property (undefined) is a name missing from the DOMAIN.       *)
(* Every await of the source is a separate step: an invocation sits at a   *)
(* pc between the call it issued and the response it is waiting for.       *)
(***************************************************************************)
EXTENDS Integers, Sequences, FiniteSets, TLC

VARIABLES
  ledger,       \* the marketplace's jobs, ledger[k] is the job of index k-1
  eaccClient,   \* this.eaccClient: "null" or "created"
  connected,    \* connectWithPrivateKey has completed successfully
  pc,           \* pc[i]: where invocation i stands
  req,          \* req[i]: request.params of invocation i
  totalJobs,    \* totalJobs[i]: the count read by invocation i
  start,        \* start[i]: the loop variable of searchJobs
  allJobs,      \* allJobs[i]: the jobs accumulated by searchJobs
  issued,       \* issued[i]: the client state the pending query was issued on
  windows,      \* windows[i]: history of the getJobs calls [s, e, ok]
  fault,        \* fault[i]: history, the fault that ended or touched the call
  initFaulted,  \* history: some invocation has returned an initialisation error
  afterFault,   \* afterFault[i]: the invocation arrived after such an error
  result        \* result[i]: the payload returned to the host

vars == <<ledger, eaccClient, connected, pc, req, totalJobs, start, allJobs,
          issued, windows, fault, initFaulted, afterFault, result>>

----------------------------------------------------------------------------
(* Bounds of the model. *)

\* the largest `limit` argument a request carries
MaxLimit == 21

\* the longest ledger
MaxTotal == 25

(* Program constants. *)

\* const batchSize = 20
batchSize == 20

\* limit = 10 when the argument is absent
defaultLimit == 10

\* maxJobsToFetch = Math.min(totalJobs, limit * 3)
overFetch == 3

----------------------------------------------------------------------------
(* Strings. *)

upperToLower ==
  [A |-> "a", B |-> "b", C |-> "c", D |-> "d", E |-> "e", F |-> "f", G |-> "g",
   H |-> "h", I |-> "i", J |-> "j", K |-> "k", L |-> "l", M |-> "m", N |-> "n",
   O |-> "o", P |-> "p", Q |-> "q", R |-> "r", S |-> "s", T |-> "t", U |-> "u",
   V |-> "v", W |-> "w", X |-> "x", Y |-> "y", Z |-> "z"]

\* String.prototype.toLowerCase
toLowerCase(s) ==
  [k \in DOMAIN s |-> IF s[k] \in DOMAIN upperToLower THEN upperToLower[s[k]] ELSE s[k]]

\* String.prototype.includes
includes(s, sub) ==
  \E k \in 0..(Len(s) - Len(sub)) : SubSeq(s, k + 1, k + Len(sub)) = sub

Has(obj, prop) == prop \in DOMAIN obj

\* JavaScript truthiness of an optional string property: present and not ""
Truthy(obj, prop) == Has(obj, prop) /\ obj[prop] # <<>>

sOpen      == <<"o", "p", "e", "n">>
sOPEN      == <<"O", "P", "E", "N">>
sTaken     == <<"t", "a", "k", "e", "n">>
sCompleted == <<"c", "o", "m", "p", "l", "e", "t", "e", "d">>
sClosed    == <<"c", "l", "o", "s", "e", "d">>
sAll       == <<"a", "l", "l">>
sDevJob    == <<"D", "e", "v", " ", "j", "o", "b">>
sVideo     == <<"v", "i", "d", "e", "o">>
sArt       == <<"A", "R", "T">>
sDev       == <<"d", "e", "v">>
sDE        == <<"D", "E">>
sRt        == <<"r", "t">>

----------------------------------------------------------------------------
(* The ledger. *)

kOpen   == [status |-> sOpen, title |-> sDevJob]
kClosed == [status |-> sClosed, description |-> sVideo]
kTaken  == [status |-> sTaken, tags |-> <<sDev, sArt>>]
kUpper  == [status |-> sOPEN, title |-> sArt, description |-> <<>>]
kBare   == [tags |-> <<>>]

\* the job of ledger index k, of kind `kind`
Job(k, kind) == [id |-> k] @@ kind

\* a ledger of n jobs whose kinds repeat the pattern p
Cyclic(p, n) == [k \in 1..n |-> Job(k - 1, p[((k - 1) % Len(p)) + 1])]

\* a ledger of n jobs: one full batch of kind a, then kind b
Blocks(a, b, n) == [k \in 1..n |-> Job(k - 1, IF k <= batchSize THEN a ELSE b)]

Patterns ==
  { <<kOpen, kClosed, kOpen, kOpen, kTaken>>,
    <<kClosed, kClosed, kClosed, kUpper>>,
    <<kBare, kTaken>> }

Totals == {0, 1, 5} \cup ((batchSize - 1)..MaxTotal)

Ledgers ==
  {Cyclic(p, n) : p \in Patterns, n \in Totals}
    \cup {Blocks(kClosed, kOpen, n) : n \in Totals}
    \cup {Blocks(kUpper, kBare, n) : n \in Totals}

min(a, b) == IF a <= b THEN a ELSE b
max(a, b) == IF a >= b THEN a ELSE b

\* EACCClient.getJobs(s, e): the jobs of the half-open index window [s, e)
getJobs(s, e) == SubSeq(ledger, s + 1, min(e, Len(ledger)))

\* EACCClient.getJobsLength()
getJobsLength == Len(ledger)

----------------------------------------------------------------------------
(* Requests. *)

Opt(prop, S) == {<<>>} \cup {[f \in {prop} |-> v] : v \in S}

StatusEnum == {sOpen, sTaken, sCompleted, sClosed, sAll}

Categories == {sDE, sRt, <<>>}

Limits == 0..MaxLimit

JobIds == {0, MaxTotal - 1, MaxTotal + 1}

SearchArgs ==
  {s @@ c @@ l : s \in Opt("status", StatusEnum),
                 c \in Opt("category", Categories),
                 l \in Opt("limit", Limits)}

Request(n, h, a) == [name |-> n, hasArgs |-> h, args |-> a]

\* request.params of every call the host may send
Requests ==
  {Request("get_job_count", h, <<>>) : h \in BOOLEAN}
    \cup {Request("search_jobs", TRUE, a) : a \in SearchArgs}
    \cup {Request("get_job_details", TRUE, [jobId |-> j]) : j \in JobIds}
    \cup {Request("get_recent_jobs", TRUE, a) : a \in Opt("limit", Limits)}
    \cup {Request(n, FALSE, <<>>) :
            n \in {"search_jobs", "get_job_details", "get_recent_jobs"}}
    \cup {Request("list_jobs", TRUE, <<>>)}

\* the requests of two overlapping invocations
SmallRequests ==
  { Request("get_job_count", TRUE, <<>>),
    Request("search_jobs", TRUE, [status |-> sOpen, limit |-> 2]),
    Request("get_job_details", TRUE, [jobId |-> 0]),
    Request("get_recent_jobs", TRUE, [limit |-> 2]) }

\* const { ..., limit = 10 } = args
limitOf(args) == IF Has(args, "limit") THEN args.limit ELSE defaultLimit

----------------------------------------------------------------------------
(* The filters and the scan plan of searchJobs. *)

\* job.status?.toLowerCase() === status.toLowerCase()
statusMatches(job, status) ==
  Has(job, "status") /\ toLowerCase(job.status) = toLowerCase(status)

\* title, description or some tag includes the category, case-insensitively
categoryMatches(job, category) ==
  \/ Has(job, "title") /\ includes(toLowerCase(job.title), toLowerCase(category))
  \/ Has(job, "description")
       /\ includes(toLowerCase(job.description), toLowerCase(category))
  \/ Has(job, "tags")
       /\ \E k \in DOMAIN job.tags :
            includes(toLowerCase(job.tags[k]), toLowerCase(category))

\* if (status && status !== 'all') filteredJobs = filteredJobs.filter(...)
statusFilter(jobs, args) ==
  IF Truthy(args, "status") /\ args.status # sAll
    THEN SelectSeq(jobs, LAMBDA job : statusMatches(job, args.status))
    ELSE jobs

\* if (category) filteredJobs = filteredJobs.filter(...)
categoryFilter(jobs, args) ==
  IF Truthy(args, "category")
    THEN SelectSeq(jobs, LAMBDA job : categoryMatches(job, args.category))
    ELSE jobs

\* slice with an end one too far
slice_offByOne(jobs, n) == SubSeq(jobs, 1, min(n + 1, Len(jobs)))

\* Array.prototype.slice(0, n), n >= 0
slice(jobs, n) == SubSeq(jobs, 1, min(n, Len(jobs)))

\* const jobs = filteredJobs.slice(0, limit)
selectJobs(jobs, args) ==
  slice(categoryFilter(statusFilter(jobs, args), args), limitOf(args))

\* const maxJobsToFetch = Math.min(totalJobs, limit * 3)
maxJobsToFetch(total, limit) == min(total, limit * overFetch)

\* the loop condition: start < maxJobsToFetch && allJobs.length < limit
scanContinues(s, acc, total, limit) ==
  s < maxJobsToFetch(total, limit) /\ Len(acc) < limit

\* a window end that ignores the scan bound
windowEnd_unbounded(s, bound) == s + batchSize

\* const end = Math.min(start + batchSize, maxJobsToFetch)
windowEnd(s, bound) == min(s + batchSize, bound)

\* start += batchSize
nextStart(s) == s + batchSize

\* the batch put in front of the accumulator
concat_prepend(acc, batch) == batch \o acc

\* allJobs = allJobs.concat(batch)
concat(acc, batch) == acc \o batch

\* a catch block that starts the accumulator over
afterBatchError_reset(acc) == <<>>

\* catch (batchError) { console.error(...) }: the accumulator is left alone
afterBatchError(acc) == acc

\* a comparison that never holds
isEmptyLedger_never(total) == FALSE

\* (totalJobs as number) === 0
isEmptyLedger(total) == total = 0

\* const startIndex = Math.max(0, totalJobs - limit)
startIndex(total, limit) == max(0, total - limit)

\* the fetched window left in ledger order
reverse_omitted(s) == s

\* Array.prototype.reverse
reverse(s) == [k \in 1..Len(s) |-> s[Len(s) + 1 - k]]

----------------------------------------------------------------------------
(* The text payloads: { content: [{ type: 'text', text }] }.  head is the  *)
(* literal beginning of the text, msg the error message, jobs the jobs of  *)
(* the rendered list, total the count the text reports.                    *)

Payload(k, h, m, js, t) == [kind |-> k, head |-> h, msg |-> m, jobs |-> js, total |-> t]

NoPayload == Payload("pending", <<>>, "", <<>>, 0)

\* `Failed to <operation>: ${error.message}` of the operations' catch blocks
failedText(op, m) == Payload("failed", <<"Failed to ", op, ": ">>, m, <<>>, 0)

\* `Error: ${error.message}` of the dispatcher's catch block
errorText(m) == Payload("error", <<"Error: ">>, m, <<>>, 0)

\* every catch block carrying the text of searchJobs
operationOf_copied(n) == "search jobs"

\* the <operation> each tool's catch block names
operationOf(n) ==
  CASE n = "get_job_count"   -> "get job count"
    [] n = "search_jobs"     -> "search jobs"
    [] n = "get_job_details" -> "get job details"
    [] n = "get_recent_jobs" -> "get recent jobs"

noJobsOnMarketplace == Payload("empty", <<"No jobs found on the marketplace.">>, "", <<>>, 0)

\* searchJobs after the scan: filter, truncate, render
searchText(acc, args, total) ==
  LET jobs == selectJobs(acc, args) IN
    IF Len(jobs) = 0
      THEN Payload("none", <<"No jobs found">>, "", <<>>, 0)
      ELSE Payload("found", <<"Found ">>, "", jobs, total)

\* getRecentJobs after the fetch: reverse, render
recentText(recentJobs) ==
  LET sortedJobs == reverse(recentJobs) IN
    IF Len(sortedJobs) = 0
      THEN Payload("none", <<"No recent jobs found.">>, "", <<>>, 0)
      ELSE Payload("recent", <<"Most recent jobs (">>, "", sortedJobs, Len(sortedJobs))

\* the client state a query is issued on
clientState == IF connected THEN "connected" ELSE "unconnected"

----------------------------------------------------------------------------
(* The state machine. *)

InitSlots(S) ==
  /\ ledger \in Ledgers
  /\ eaccClient = "null"
  /\ connected = FALSE
  /\ pc = [i \in S |-> "idle"]
  /\ req = [i \in S |-> Request("get_job_count", FALSE, <<>>)]
  /\ totalJobs = [i \in S |-> 0]
  /\ start = [i \in S |-> 0]
  /\ allJobs = [i \in S |-> <<>>]
  /\ issued = [i \in S |-> "none"]
  /\ windows = [i \in S |-> <<>>]
  /\ fault = [i \in S |-> "none"]
  /\ initFaulted = FALSE
  /\ afterFault = [i \in S |-> FALSE]
  /\ result = [i \in S |-> NoPayload]

\* return { content: ... } (or the catch block's): the call is over
Return(i, payload, f) ==
  /\ pc' = [pc EXCEPT ![i] = "done"]
  /\ result' = [result EXCEPT ![i] = payload]
  /\ fault' = [fault EXCEPT ![i] = f]
  /\ issued' = [issued EXCEPT ![i] = "none"]

\* the host sends a tools/call request
Invoke(i, r) ==
  /\ pc[i] = "idle"
  /\ pc' = [pc EXCEPT ![i] = "init"]
  /\ req' = [req EXCEPT ![i] = r]
  /\ afterFault' = [afterFault EXCEPT ![i] = initFaulted]
  /\ UNCHANGED <<ledger, eaccClient, connected, totalJobs, start, allJobs, issued,
                 windows, fault, initFaulted, result>>

\* the payload is sent to the host: the handler's locals are gone
Deliver(i) ==
  /\ pc[i] = "done"
  /\ pc' = [pc EXCEPT ![i] = "idle"]
  /\ req' = [req EXCEPT ![i] = Request("get_job_count", FALSE, <<>>)]
  /\ totalJobs' = [totalJobs EXCEPT ![i] = 0]
  /\ start' = [start EXCEPT ![i] = 0]
  /\ allJobs' = [allJobs EXCEPT ![i] = <<>>]
  /\ windows' = [windows EXCEPT ![i] = <<>>]
  /\ fault' = [fault EXCEPT ![i] = "none"]
  /\ afterFault' = [afterFault EXCEPT ![i] = FALSE]
  /\ result' = [result EXCEPT ![i] = NoPayload]
  /\ UNCHANGED <<ledger, eaccClient, connected, issued, initFaulted>>

\* initializeEACCClient up to its await: return at once when this.eaccClient
\* is set, else create the client, assign it and start connecting
InitializeEACCClient(i) ==
  /\ pc[i] = "init"
  /\ IF eaccClient # "null"
       THEN /\ pc' = [pc EXCEPT ![i] = "dispatch"]
            /\ UNCHANGED eaccClient
       ELSE /\ eaccClient' = "created"
            /\ pc' = [pc EXCEPT ![i] = "connecting"]
  /\ UNCHANGED <<ledger, connected, req, totalJobs, start, allJobs, issued,
                 windows, fault, initFaulted, afterFault, result>>

\* await connectWithPrivateKey(...) resolves
ConnectResolve(i) ==
  /\ pc[i] = "connecting"
  /\ connected' = TRUE
  /\ pc' = [pc EXCEPT ![i] = "dispatch"]
  /\ UNCHANGED <<ledger, eaccClient, req, totalJobs, start, allJobs, issued,
                 windows, fault, initFaulted, afterFault, result>>

\* await connectWithPrivateKey(...) rejects: rethrown, caught by the dispatcher
ConnectReject(i) ==
  /\ pc[i] = "connecting"
  /\ Return(i, errorText("connect failed"), "init")
  /\ initFaulted' = TRUE
  /\ UNCHANGED <<ledger, eaccClient, connected, req, totalJobs, start, allJobs,
                 windows, afterFault>>

\* a query is issued on the client: the invocation awaits at `at`
Issue(i, at) ==
  /\ pc' = [pc EXCEPT ![i] = at]
  /\ issued' = [issued EXCEPT ![i] = clientState]
  /\ UNCHANGED <<result, fault>>

\* the switch of the dispatcher and each operation up to its first await
Dispatch(i) ==
  /\ pc[i] = "dispatch"
  /\ IF eaccClient = "null"
       THEN Return(i, errorText("Failed to initialize EACC client"), "init")
       ELSE CASE req[i].name = "get_job_count" -> Issue(i, "count")
              [] req[i].name \in {"search_jobs", "get_recent_jobs"} ->
                   IF req[i].hasArgs
                     THEN Issue(i, "count")
                     ELSE Return(i, failedText(operationOf(req[i].name),
                                               "Cannot destructure"), "args")
              [] req[i].name = "get_job_details" ->
                   IF req[i].hasArgs
                     THEN Issue(i, "byId")
                     ELSE Return(i, failedText(operationOf(req[i].name),
                                               "Cannot destructure"), "args")
              [] OTHER -> Return(i, errorText("Unknown tool"), "unknown")
  /\ UNCHANGED <<ledger, eaccClient, connected, req, totalJobs, start, allJobs,
                 windows, initFaulted, afterFault>>

\* the head of the scan loop of searchJobs with loop variable s and
\* accumulator acc: fetch the next window, or leave the loop and render
ScanLoop(i, s, acc, total, wins) ==
  LET limit == limitOf(req[i].args) IN
    /\ start' = [start EXCEPT ![i] = s]
    /\ allJobs' = [allJobs EXCEPT ![i] = acc]
    /\ IF scanContinues(s, acc, total, limit)
         THEN /\ Issue(i, "range")
              /\ windows' = [windows EXCEPT ![i] =
                   Append(wins, [s |-> s,
                                 e |-> windowEnd(s, maxJobsToFetch(total, limit)),
                                 ok |-> "pending"])]
         ELSE /\ Return(i, searchText(acc, req[i].args, total), fault[i])
              /\ windows' = [windows EXCEPT ![i] = wins]

\* the pending window, and the history with its outcome recorded
pendingWindow(i) == windows[i][Len(windows[i])]
settled(i, outcome) == [windows[i] EXCEPT ![Len(windows[i])].ok = outcome]

\* A query is answered only when it was issued on a connected client: the
\* contracts it reads are bound by connectWithPrivateKey.  Issued on a client
\* that has not connected it is rejected; issued on a connected one it is
\* answered or, on a transport fault, rejected.
\* the message of a rejected query
rejection(i) == IF issued[i] = "unconnected" THEN "not connected" ELSE "transport fault"

\* await getJobsLength() resolves
CountResolve(i) ==
  /\ pc[i] = "count"
  /\ issued[i] = "connected"
  /\ LET total == getJobsLength IN
       /\ totalJobs' = [totalJobs EXCEPT ![i] = total]
       /\ CASE req[i].name = "get_job_count" ->
                 /\ Return(i, Payload("count", <<"There are currently ">>, "", <<>>, total),
                           "none")
                 /\ UNCHANGED <<start, allJobs, windows>>
            [] req[i].name = "search_jobs" ->
                 IF isEmptyLedger(total)
                   THEN /\ Return(i, noJobsOnMarketplace, "none")
                        /\ UNCHANGED <<start, allJobs, windows>>
                   ELSE ScanLoop(i, 0, <<>>, total, <<>>)
            [] req[i].name = "get_recent_jobs" ->
                 IF isEmptyLedger(total)
                   THEN /\ Return(i, noJobsOnMarketplace, "none")
                        /\ UNCHANGED <<start, allJobs, windows>>
                   ELSE /\ Issue(i, "range")
                        /\ windows' = [windows EXCEPT ![i] =
                             <<[s |-> startIndex(total, limitOf(req[i].args)),
                                e |-> total, ok |-> "pending"]>>]
                        /\ UNCHANGED <<start, allJobs>>
  /\ UNCHANGED <<ledger, eaccClient, connected, req, initFaulted, afterFault>>

\* await getJobsLength() rejects: caught by the operation's catch block
CountReject(i) ==
  /\ pc[i] = "count"
  /\ Return(i, failedText(operationOf(req[i].name), rejection(i)), "count")
  /\ UNCHANGED <<ledger, eaccClient, connected, req, totalJobs, start, allJobs,
                 windows, initFaulted, afterFault>>

\* await getJobs(start, end) resolves
RangeResolve(i) ==
  /\ pc[i] = "range"
  /\ issued[i] = "connected"
  /\ LET batch == getJobs(pendingWindow(i).s, pendingWindow(i).e) IN
       IF req[i].name = "search_jobs"
         THEN ScanLoop(i, nextStart(start[i]), concat(allJobs[i], batch),
                       totalJobs[i], settled(i, "ok"))
         ELSE /\ Return(i, recentText(batch), "none")
              /\ windows' = [windows EXCEPT ![i] = settled(i, "ok")]
              /\ UNCHANGED <<start, allJobs>>
  /\ UNCHANGED <<ledger, eaccClient, connected, req, totalJobs, initFaulted,
                 afterFault>>

\* await getJobs(start, end) rejects: searchJobs logs it and goes on with the
\* next window, getRecentJobs fails
RangeReject(i) ==
  /\ pc[i] = "range"
  /\ IF req[i].name = "search_jobs"
       THEN ScanLoop(i, nextStart(start[i]), afterBatchError(allJobs[i]),
                     totalJobs[i], settled(i, "failed"))
       ELSE /\ Return(i, failedText(operationOf(req[i].name), rejection(i)), "range")
            /\ windows' = [windows EXCEPT ![i] = settled(i, "failed")]
            /\ UNCHANGED <<start, allJobs>>
  /\ UNCHANGED <<ledger, eaccClient, connected, req, totalJobs, initFaulted,
                 afterFault>>

\* EACCClient.getJob(id): the job, or null for an id the ledger does not hold
getJob(id) == IF id \in 0..(Len(ledger) - 1) THEN <<ledger[id + 1]>> ELSE <<>>

\* await getJob(jobId) resolves
ByIdResolve(i) ==
  /\ pc[i] = "byId"
  /\ issued[i] = "connected"
  /\ LET job == getJob(req[i].args.jobId) IN
       IF job = <<>>
         THEN Return(i, Payload("not_found", <<"Job #", " not found.">>, "", <<>>, 0),
                     "none")
         ELSE Return(i, Payload("details", <<"Job #", " Details:">>, "", job, 0), "none")
  /\ UNCHANGED <<ledger, eaccClient, connected, req, totalJobs, start, allJobs,
                 windows, initFaulted, afterFault>>

\* await getJob(jobId) rejects
ByIdReject(i) ==
  /\ pc[i] = "byId"
  /\ Return(i, failedText(operationOf(req[i].name), rejection(i)), "byId")
  /\ UNCHANGED <<ledger, eaccClient, connected, req, totalJobs, start, allJobs,
                 windows, initFaulted, afterFault>>

\* one step of invocation i on behalf of a host that sends the requests R
Step(i, R) ==
  \/ \E r \in R : Invoke(i, r)
  \/ InitializeEACCClient(i)
  \/ ConnectResolve(i)
  \/ ConnectReject(i)
  \/ Dispatch(i)
  \/ CountResolve(i)
  \/ CountReject(i)
  \/ RangeResolve(i)
  \/ RangeReject(i)
  \/ ByIdResolve(i)
  \/ ByIdReject(i)
  \/ Deliver(i)

(* The host sends one call at a time and awaits its result. *)
Init == InitSlots({1})

Next == Step(1, Requests)

Spec == Init /\ [][Next]_vars

(* The host sends a second call while the first is in flight. *)
InitConc == InitSlots({1, 2})

NextConc == \E i \in {1, 2} : Step(i, SmallRequests)

SpecConc == InitConc /\ [][NextConc]_vars

----------------------------------------------------------------------------
(* What the properties below speak of, stated from the state and the       *)
(* ledger and not from the operators the operations are built of.          *)

Invocations == DOMAIN pc

\* invocation i is a call of tool n that carries an arguments object
Calls(i, n) == req[i].name = n /\ req[i].hasArgs

\* the call has returned, and no fault ended it
Succeeded(i) == pc[i] = "done" /\ fault[i] = "none"

\* the limit the call asks for
GivenLimit(i) == IF "limit" \in DOMAIN req[i].args THEN req[i].args.limit ELSE 10

\* the job's status equals the status filter, case-insensitively
SatisfiesStatus(job, a) ==
  \/ "status" \notin DOMAIN a
  \/ a.status = sAll
  \/ "status" \in DOMAIN job /\ toLowerCase(job.status) = toLowerCase(a.status)

\* c is a case-insensitive substring of the title, the description or a tag
SubstringOfText(job, c) ==
  \/ "title" \in DOMAIN job /\ includes(toLowerCase(job.title), toLowerCase(c))
  \/ "description" \in DOMAIN job
       /\ includes(toLowerCase(job.description), toLowerCase(c))
  \/ "tags" \in DOMAIN job
       /\ \E k \in DOMAIN job.tags : includes(toLowerCase(job.tags[k]), toLowerCase(c))

\* the category filter, every supplied string taken as a filter
SatisfiesCategoryString(job, a) ==
  "category" \notin DOMAIN a \/ SubstringOfText(job, a.category)

\* the category filter, the empty string taken as no filter
SatisfiesCategory(job, a) ==
  \/ "category" \notin DOMAIN a
  \/ a.category = <<>>
  \/ SubstringOfText(job, a.category)

Satisfies(job, a) == SatisfiesStatus(job, a) /\ SatisfiesCategory(job, a)

\* the ledger indices of the windows of invocation i with outcome o
IndicesOf(i, o) ==
  {k \in 0..(Len(ledger) - 1) :
     \E w \in DOMAIN windows[i] :
       windows[i][w].ok = o /\ windows[i][w].s <= k /\ k < windows[i][w].e}

\* the fetched indices whose job satisfies the filters of the call
MatchingIndices(i) ==
  {k \in IndicesOf(i, "ok") : Satisfies(ledger[k + 1], req[i].args)}

\* the n smallest members of the set S of numbers
FirstOf(S, n) == {k \in S : Cardinality({m \in S : m < k}) < n}

\* the ids of the jobs a payload lists
IdsOf(payload) == {payload.jobs[k].id : k \in DOMAIN payload.jobs}

\* every listed job is the ledger's job of that id
ListsLedgerJobs(payload) ==
  \A k \in DOMAIN payload.jobs :
    /\ payload.jobs[k].id \in 0..(Len(ledger) - 1)
    /\ payload.jobs[k] = ledger[payload.jobs[k].id + 1]

----------------------------------------------------------------------------
(* C1 as stated: a search_jobs call with limit > 0 lists at most `limit`  *)
(* jobs, and every listed job has the status of the status filter (unless  *)
(* it is 'all' or absent) and holds the category string, whatever string   *)
(* it is, in its title, its description or a tag.                          *)
C1_Original ==
  \A i \in Invocations :
    (Calls(i, "search_jobs") /\ pc[i] = "done" /\ GivenLimit(i) > 0) =>
      /\ Len(result[i].jobs) <= GivenLimit(i)
      /\ \A k \in DOMAIN result[i].jobs :
           /\ SatisfiesStatus(result[i].jobs[k], req[i].args)
           /\ SatisfiesCategoryString(result[i].jobs[k], req[i].args)

(* C1 amended: a search_jobs call with limit > 0 lists at most `limit`    *)
(* jobs, and every listed job satisfies the status filter and, when the    *)
(* category is a non-empty string, the category filter; an empty category  *)
(* string filters nothing.                                                 *)
C1_SearchBoundedAndFiltered ==
  \A i \in Invocations :
    (Calls(i, "search_jobs") /\ pc[i] = "done" /\ GivenLimit(i) > 0) =>
      /\ Len(result[i].jobs) <= GivenLimit(i)
      /\ \A k \in DOMAIN result[i].jobs :
           /\ SatisfiesStatus(result[i].jobs[k], req[i].args)
           /\ SatisfiesCategory(result[i].jobs[k], req[i].args)

\* a search with both filters whose matches exceed the limit it fills
C1_Witness ==
  \E i \in Invocations :
    /\ Calls(i, "search_jobs") /\ pc[i] = "done"
    /\ "status" \in DOMAIN req[i].args /\ req[i].args.status # sAll
    /\ "category" \in DOMAIN req[i].args /\ req[i].args.category # <<>>
    /\ GivenLimit(i) > 1
    /\ Len(result[i].jobs) = GivenLimit(i)
    /\ Cardinality(MatchingIndices(i)) > GivenLimit(i)
    /\ Len(allJobs[i]) > Cardinality(MatchingIndices(i))

----------------------------------------------------------------------------
\* the number of windows of invocation i with outcome o
CountOf(i, o) == Cardinality({w \in DOMAIN windows[i] : windows[i][w].ok = o})

(* C2: when exactly one chunk fetch of a search_jobs scan fails, the call  *)
(* returns a normal result and not an error text; the accumulated jobs are *)
(* exactly the ledger's jobs of the other windows, and the listed set is   *)
(* what those windows yield: their jobs that satisfy the filters, up to    *)
(* `limit` of them.                                                        *)
C2_ChunkFailureTolerance ==
  \A i \in Invocations :
    (Calls(i, "search_jobs") /\ pc[i] = "done" /\ CountOf(i, "failed") = 1) =>
      /\ result[i].kind \in {"found", "none"}
      /\ {allJobs[i][k].id : k \in DOMAIN allJobs[i]} = IndicesOf(i, "ok")
      /\ \A k \in DOMAIN allJobs[i] : allJobs[i][k] = ledger[allJobs[i][k].id + 1]
      /\ IdsOf(result[i]) = FirstOf(MatchingIndices(i), GivenLimit(i))
      /\ ListsLedgerJobs(result[i])

\* a scan whose first window failed and whose second brought the listed jobs
C2_Witness ==
  \E i \in Invocations :
    /\ Calls(i, "search_jobs") /\ pc[i] = "done"
    /\ CountOf(i, "failed") = 1
    /\ Len(windows[i]) >= 2
    /\ windows[i][1].ok = "failed"
    /\ result[i].kind = "found"
    /\ Len(result[i].jobs) >= 2

\* the failed window comes after a window that brought the listed jobs
C2_WitnessLater ==
  \E i \in Invocations :
    /\ Calls(i, "search_jobs") /\ pc[i] = "done"
    /\ CountOf(i, "failed") = 1
    /\ Len(windows[i]) >= 2
    /\ windows[i][2].ok = "failed"
    /\ result[i].kind = "found"

----------------------------------------------------------------------------
\* the five-job ledger of statuses open, closed, open, open, taken
ExampleStatuses == <<sOpen, sClosed, sOpen, sOpen, sTaken>>

IsExampleLedger ==
  /\ Len(ledger) = 5
  /\ \A k \in 1..5 : "status" \in DOMAIN ledger[k] /\ ledger[k].status = ExampleStatuses[k]

\* search_jobs({status: "open", limit: 2})
IsExampleSearch(i) ==
  /\ Calls(i, "search_jobs")
  /\ DOMAIN req[i].args = {"status", "limit"}
  /\ req[i].args.status = sOpen
  /\ req[i].args.limit = 2

(* C3: a search_jobs call that returns normally lists its jobs in strictly *)
(* ascending ledger order, and they are the first matches of the scan: of  *)
(* the m fetched jobs that satisfy the filters it lists min(limit, m), and *)
(* no fetched match precedes a listed job without being listed.  On the    *)
(* example ledger, status 'open' with limit 2 lists the jobs 0 and 2.      *)
C3_FirstMatchesInLedgerOrder ==
  \A i \in Invocations :
    (Calls(i, "search_jobs") /\ Succeeded(i)) =>
      LET jobs == result[i].jobs
          m == Cardinality(MatchingIndices(i))
      IN  /\ \A k \in 1..(Len(jobs) - 1) : jobs[k].id < jobs[k + 1].id
          /\ Len(jobs) = (IF GivenLimit(i) <= m THEN GivenLimit(i) ELSE m)
          /\ IdsOf(result[i]) \subseteq MatchingIndices(i)
          /\ \A k \in DOMAIN jobs : \A n \in MatchingIndices(i) :
               n < jobs[k].id => n \in IdsOf(result[i])
          /\ (IsExampleLedger /\ IsExampleSearch(i) /\ CountOf(i, "failed") = 0) =>
               /\ Len(jobs) = 2
               /\ jobs[1].id = 0
               /\ jobs[2].id = 2

\* the example has run
C3_Witness ==
  \E i \in Invocations :
    /\ IsExampleLedger /\ IsExampleSearch(i) /\ Succeeded(i)
    /\ CountOf(i, "failed") = 0
    /\ result[i].kind = "found"
    /\ Cardinality(MatchingIndices(i)) = 3

----------------------------------------------------------------------------
(* C4: a get_recent_jobs call with limit k > 0 that succeeds on a ledger   *)
(* of total >= 1 jobs lists at most k jobs, all of the window              *)
(* [max(0, total - k), total), in strictly descending ledger index, the    *)
(* first of them the job of index total - 1.                               *)
C4_RecentNewestFirst ==
  \A i \in Invocations :
    (Calls(i, "get_recent_jobs") /\ Succeeded(i)
       /\ GivenLimit(i) > 0 /\ totalJobs[i] >= 1) =>
      LET jobs == result[i].jobs
          k == GivenLimit(i)
          total == totalJobs[i]
      IN  /\ result[i].kind = "recent"
          /\ Len(jobs) >= 1 /\ Len(jobs) <= k
          /\ \A n \in DOMAIN jobs :
               /\ jobs[n].id >= (IF total - k > 0 THEN total - k ELSE 0)
               /\ jobs[n].id < total
          /\ \A n \in 1..(Len(jobs) - 1) : jobs[n].id > jobs[n + 1].id
          /\ jobs[1].id = total - 1
          /\ ListsLedgerJobs(result[i])

\* a call that lists k >= 2 jobs of a ledger longer than k
C4_Witness ==
  \E i \in Invocations :
    /\ Calls(i, "get_recent_jobs") /\ Succeeded(i)
    /\ GivenLimit(i) >= 2
    /\ totalJobs[i] > GivenLimit(i)
    /\ Len(result[i].jobs) = GivenLimit(i)

----------------------------------------------------------------------------
\* a single text payload
WellFormed(payload) ==
  /\ DOMAIN payload = {"kind", "head", "msg", "jobs", "total"}
  /\ payload.kind # "pending"
  /\ Len(payload.head) >= 1

\* the operation a tool's failure text names
OperationName(n) ==
  CASE n = "get_job_count"   -> "get job count"
    [] n = "search_jobs"     -> "search jobs"
    [] n = "get_job_details" -> "get job details"
    [] n = "get_recent_jobs" -> "get recent jobs"
    [] OTHER                 -> "?"

\* the payload's text begins `Failed to <operation of tool n>: `
BeginsFailedTo(payload, n) ==
  /\ Len(payload.head) = 3
  /\ payload.head[1] = "Failed to "
  /\ payload.head[2] = OperationName(n)
  /\ payload.head[3] = ": "
  /\ payload.msg # ""

(* C5 as stated: every call returns one well-formed text payload, and     *)
(* every failure (of initialisation, of a count, range or byId fetch, of   *)
(* the arguments, of the tool name) is rendered as text beginning          *)
(* `Failed to <operation>: <message>`.                                     *)
C5_Original ==
  \A i \in Invocations :
    pc[i] = "done" =>
      /\ WellFormed(result[i])
      /\ fault[i] # "none" => BeginsFailedTo(result[i], req[i].name)

(* C5 amended: every call returns one well-formed text payload; a failed   *)
(* count or byId fetch, a failed range fetch of get_recent_jobs and a      *)
(* missing arguments object are rendered as text beginning                 *)
(* `Failed to <operation>: <message>`, an initialisation fault and an      *)
(* unknown tool name as text beginning `Error: <message>`, and a failed    *)
(* range fetch of search_jobs is not rendered as a failure at all.         *)
C5_FailuresRenderedAsText ==
  \A i \in Invocations :
    pc[i] = "done" =>
      /\ WellFormed(result[i])
      /\ fault[i] \in {"count", "range", "byId", "args"} =>
           BeginsFailedTo(result[i], req[i].name)
      /\ fault[i] \in {"init", "unknown"} =>
           /\ result[i].head = <<"Error: ">>
           /\ result[i].msg # ""
      /\ fault[i] = "none" =>
           /\ result[i].head[1] \notin {"Failed to ", "Error: "}
           /\ result[i].msg = ""
      /\ (Calls(i, "search_jobs") /\ CountOf(i, "failed") > 0) => fault[i] = "none"

\* a failed range fetch of get_recent_jobs has been returned as
\* `Failed to get recent jobs: transport fault`
C5_Witness ==
  \E i \in Invocations :
    /\ pc[i] = "done"
    /\ fault[i] = "range"
    /\ Calls(i, "get_recent_jobs")
    /\ BeginsFailedTo(result[i], "get_recent_jobs")

\* an initialisation fault has been returned as `Error: connect failed`
C5_WitnessInit ==
  \E i \in Invocations :
    pc[i] = "done" /\ fault[i] = "init" /\ result[i].head = <<"Error: ">>

----------------------------------------------------------------------------
\* invocation i awaits the answer to a query it issued on the client
Querying(i) == pc[i] \in {"count", "range", "byId"}

(* C6: an initialisation fault is fatal for the current call only: a call  *)
(* that arrives after one was returned initialises the client anew, so     *)
(* whenever it queries the data source, it does so on a connected client.  *)
C6_LaterCallServedConnected ==
  \A i \in Invocations :
    (afterFault[i] /\ Querying(i)) => issued[i] = "connected"

----------------------------------------------------------------------------
(* C7: on a ledger of total 0, a search_jobs or get_recent_jobs call whose *)
(* count succeeds returns 'No jobs found on the marketplace.', neither an  *)
(* error text nor a rendered list, and no range fetch is ever issued.      *)
C7_EmptyLedger ==
  \A i \in Invocations :
    (Len(ledger) = 0 /\ req[i].name \in {"search_jobs", "get_recent_jobs"}) =>
      /\ windows[i] = <<>>
      /\ pc[i] # "range"
      /\ (Succeeded(i) /\ req[i].hasArgs) =>
           /\ result[i].head = <<"No jobs found on the marketplace.">>
           /\ result[i].jobs = <<>>
           /\ result[i].msg = ""

\* search_jobs with both filters has returned from the empty ledger
C7_Witness ==
  \E i \in Invocations :
    /\ Len(ledger) = 0
    /\ Calls(i, "search_jobs") /\ Succeeded(i)
    /\ "status" \in DOMAIN req[i].args /\ "category" \in DOMAIN req[i].args
    /\ GivenLimit(i) > 0

\* get_recent_jobs has returned from the empty ledger
C7_WitnessRecent ==
  \E i \in Invocations :
    Len(ledger) = 0 /\ Calls(i, "get_recent_jobs") /\ Succeeded(i) /\ GivenLimit(i) > 0

----------------------------------------------------------------------------
\* the scan bound of invocation i: min(total, limit * 3)
ScanBound(i) ==
  IF totalJobs[i] <= GivenLimit(i) * 3 THEN totalJobs[i] ELSE GivenLimit(i) * 3

\* the accumulated jobs that satisfy the filters
MatchesAccumulated(i) ==
  Cardinality({k \in DOMAIN allJobs[i] : Satisfies(allJobs[i][k], req[i].args)})

(* C8: the search_jobs scan goes on until the scan bound is reached or     *)
(* `limit` jobs that satisfy the filters are accumulated: when the scan is *)
(* over, indices below the bound are unrequested only if `limit` matching  *)
(* jobs were accumulated.                                                  *)
C8_ScanUntilBoundOrMatches ==
  \A i \in Invocations :
    (Calls(i, "search_jobs") /\ Succeeded(i)
       /\ GivenLimit(i) > 0 /\ totalJobs[i] > 0) =>
      \/ start[i] >= ScanBound(i)
      \/ MatchesAccumulated(i) >= GivenLimit(i)

----------------------------------------------------------------------------
(* C9: the windows a search_jobs scan requests are half-open intervals of  *)
(* at most 20 indices, the first from index 0, each next one starting      *)
(* where the one before it ended or later, every end within                *)
(* min(total, limit * 3); no index is requested twice, and the accumulated *)
(* jobs are in ledger order without a duplicate id.                        *)
C9_DisjointOrderedWindows ==
  \A i \in Invocations :
    req[i].name = "search_jobs" =>
      LET w == windows[i] IN
        /\ \A k \in DOMAIN w :
             /\ w[k].s < w[k].e
             /\ w[k].e - w[k].s <= 20
             /\ w[k].e <= ScanBound(i)
        /\ Len(w) >= 1 => w[1].s = 0
        /\ \A k \in 1..(Len(w) - 1) : w[k].s < w[k + 1].s /\ w[k].e <= w[k + 1].s
        /\ \A n \in 0..(Len(ledger) - 1) :
             Cardinality({k \in DOMAIN w : w[k].s <= n /\ n < w[k].e}) <= 1
        /\ \A k \in 1..(Len(allJobs[i]) - 1) : allJobs[i][k].id < allJobs[i][k + 1].id

\* a scan of two windows that both brought jobs
C9_Witness ==
  \E i \in Invocations :
    /\ Calls(i, "search_jobs") /\ pc[i] = "done"
    /\ Len(windows[i]) = 2
    /\ CountOf(i, "ok") = 2
    /\ Len(allJobs[i]) > 20

----------------------------------------------------------------------------
(* C10: under any interleaving of invocations, no operation queries the    *)
(* data source before the client's connect step has completed.             *)
C10_NoQueryBeforeConnect ==
  \A i \in Invocations : Querying(i) => issued[i] = "connected"

=============================================================================
